---- MODULE Spec2Model ----
(***************************************************************************)
(* A model of tv_notifier.py: the events table, the calendar feed, the     *)
(* three jobs that use them (update_schedule, send_notifications,          *)
(* send_weekly_schedule), the date arithmetic of the weekly range and the  *)
(* control flow of main.                                                   *)
(***************************************************************************)
EXTENDS Integers, Sequences, FiniteSets, TLC

VARIABLES
    tableExists,  \* the events table has been created in DB_FILE
    store,        \* the rows of the events table, in rowid (insertion) order
    feed,         \* the document currently served at ICAL_URL
    today,        \* date.today()
    last,         \* the operation that ran last and what it did
    resync,       \* history: the last step re-ran update_schedule right after a
                  \* run on the same document that met no fetch or storage fault
    pc,           \* where main is
    clock,        \* the wall clock, in hours since midnight of the first day
    nextRefresh,  \* next_run of the job every(30).days.do(update_schedule)
    nextNotify,   \* next_run of the job every().day.at("08:00").do(send_notifications)
    runs,         \* the update_schedule runs in progress side by side
    lock          \* the run that holds the write lock of DB_FILE, or 0

data == <<tableExists, store, feed, today, last, resync>>

ctl == <<pc, clock, nextRefresh, nextNotify>>

conc == <<runs, lock>>

vars == <<tableExists, store, feed, today, last, resync, pc, clock, nextRefresh, nextNotify,
          runs, lock>>

(***************************************************************************)
(* Bounds of the model.                                                    *)
(***************************************************************************)
MaxFeedLen == 2      \* components in one calendar document
MaxDays == 31        \* days the clock of main runs for
WindowDays == 10     \* days in each window of dates that today and the rows span
MaxConcLen == 1      \* components in the document of a run that shares the table

(***************************************************************************)
(* datetime.date: proleptic Gregorian dates, as in the standard library.   *)
(***************************************************************************)
IsLeap(y) == y % 4 = 0 /\ (y % 100 # 0 \/ y % 400 = 0)

DaysInMonth(y, m) ==
    IF m = 2 THEN (IF IsLeap(y) THEN 29 ELSE 28)
    ELSE IF m \in {4, 6, 9, 11} THEN 30 ELSE 31

RECURSIVE DaysBeforeMonth(_, _)
DaysBeforeMonth(y, m) ==
    IF m = 1 THEN 0 ELSE DaysBeforeMonth(y, m - 1) + DaysInMonth(y, m - 1)

DaysBeforeYear(y) ==
    (y - 1) * 365 + (y - 1) \div 4 - (y - 1) \div 100 + (y - 1) \div 400

Date(y, m, d) == [year |-> y, month |-> m, day |-> d]

\* date.toordinal(): 0001-01-01 is day 1
ToOrdinal(dt) == DaysBeforeYear(dt.year) + DaysBeforeMonth(dt.year, dt.month) + dt.day

\* date.fromordinal(n), the standard library's _ord2ymd
FromOrdinal(n) ==
    LET n0   == n - 1
        n400 == n0 \div 146097
        r400 == n0 % 146097
        n100 == r400 \div 36524
        r100 == r400 % 36524
        n4   == r100 \div 1461
        r4   == r100 % 1461
        n1   == r4 \div 365
        r1   == r4 % 365
        y    == n400 * 400 + 1 + n100 * 100 + n4 * 4 + n1
        m0   == (r1 + 50) \div 32
        p0   == DaysBeforeMonth(y, m0)
        m    == IF p0 > r1 THEN m0 - 1 ELSE m0
        p    == IF p0 > r1 THEN p0 - DaysInMonth(y, m0 - 1) ELSE p0
    IN  IF n1 = 4 \/ n100 = 4
        THEN Date(y - 1, 12, 31)
        ELSE Date(y, m, r1 - p + 1)

\* date + timedelta(days=n)
AddDays(dt, n) == FromOrdinal(ToOrdinal(dt) + n)

\* date.weekday(): Monday is 0, Sunday is 6
Weekday(dt) == (ToOrdinal(dt) + 6) % 7

\* date < date, date <= date
DateLess(a, b) ==
    \/ a.year < b.year
    \/ a.year = b.year /\ a.month < b.month
    \/ a.year = b.year /\ a.month = b.month /\ a.day < b.day

DateLeq(a, b) == a = b \/ DateLess(a, b)

(***************************************************************************)
(* Text: a string is a sequence of one-character strings.                  *)
(***************************************************************************)
Digits == <<"0", "1", "2", "3", "4", "5", "6", "7", "8", "9">>

DigitChar(n) == Digits[n + 1]

DigitVal(c) == CHOOSE n \in 0..9 : Digits[n + 1] = c

\* ord(c) for the characters of an ISO date
Ord(c) == IF c = "-" THEN 45 ELSE 48 + DigitVal(c)

RECURSIVE DecStr(_)
DecStr(n) == IF n < 10 THEN <<DigitChar(n)>> ELSE DecStr(n \div 10) \o <<DigitChar(n % 10)>>

\* "%0wd"
RECURSIVE ZeroPad(_, _)
ZeroPad(s, w) == IF Len(s) >= w THEN s ELSE ZeroPad(<<"0">> \o s, w)

RECURSIVE DecVal(_)
DecVal(s) == IF s = <<>> THEN 0 ELSE DecVal(SubSeq(s, 1, Len(s) - 1)) * 10 + DigitVal(s[Len(s)])

\* A plausible slip: the fields written without zero padding ("2024-9-5").
IsoFormatUnpadded(dt) ==
    DecStr(dt.year) \o <<"-">> \o DecStr(dt.month) \o <<"-">> \o DecStr(dt.day)

\* date.isoformat(): "%04d-%02d-%02d"
IsoFormat(dt) ==
    ZeroPad(DecStr(dt.year), 4) \o <<"-">> \o ZeroPad(DecStr(dt.month), 2)
        \o <<"-">> \o ZeroPad(DecStr(dt.day), 2)

\* date.fromisoformat(s) for "YYYY-MM-DD"
FromIsoFormat(s) ==
    Date(DecVal(SubSeq(s, 1, 4)), DecVal(SubSeq(s, 6, 7)), DecVal(SubSeq(s, 9, 10)))

\* The order SQLite gives TEXT values (BINARY collation: memcmp, then length).
TextLess(a, b) ==
    \E i \in 1..(Len(b)) :
        /\ \A j \in 1..(i - 1) : j <= Len(a) /\ a[j] = b[j]
        /\ IF i > Len(a) THEN i = Len(a) + 1 ELSE Ord(a[i]) < Ord(b[i])

TextLeq(a, b) == a = b \/ TextLess(a, b)

\* s.find(sep) + 1: where sep first occurs in s, 0 when it does not
Find(s, sep) ==
    LET hits == { i \in 1..(Len(s) - Len(sep) + 1) : SubSeq(s, i, i + Len(sep) - 1) = sep }
    IN  IF hits = {} THEN 0 ELSE CHOOSE i \in hits : \A j \in hits : i <= j

\* s.split(sep, 1): the text cut at the first sep only
SplitOnce(s, sep) ==
    LET i == Find(s, sep)
    IN  IF i = 0 THEN <<s>>
        ELSE <<SubSeq(s, 1, i - 1), SubSeq(s, i + Len(sep), Len(s))>>

\* s.split(sep): the text cut at every sep, left to right
RECURSIVE Split(_, _)
Split(s, sep) ==
    LET i == Find(s, sep)
    IN  IF i = 0 THEN <<s>>
        ELSE <<SubSeq(s, 1, i - 1)>> \o Split(SubSeq(s, i + Len(sep), Len(s)), sep)

\* s.lstrip(c) for a one-character c
RECURSIVE LStrip(_, _)
LStrip(s, c) == IF s # <<>> /\ s[1] = c THEN LStrip(Tail(s), c) ELSE s

(***************************************************************************)
(* The calendar feed.  A VEVENT component is a mapping from the property   *)
(* names it carries to their values; event["k"] raises KeyError when the   *)
(* component has no property k.                                            *)
(***************************************************************************)
Uids == {"u1", "u2"}

SumA == <<"A", ":", " ", "2", "x", "0", "5">>
SumB == <<"B", ":", " ", "1", "x", "1", "0">>

\* DTSTART values: a date and a time of day
DtA == [date |-> Date(2024, 5, 10), hour |-> 20]
DtB == [date |-> Date(2024, 5, 13), hour |-> 0]

Keys == {"uid", "dtstart", "summary"}

FullEvents ==
    { [uid |-> u, dtstart |-> v[1], summary |-> v[2]] :
          u \in Uids, v \in {<<DtA, SumA>>, <<DtB, SumB>>} }

\* components that lack one of the three properties
PartialEvents ==
    { [k \in Keys \ {gone} |-> [uid |-> "u2", dtstart |-> DtA, summary |-> SumA][k]] :
          gone \in Keys }

Components == FullEvents \cup PartialEvents

\* A document: the VEVENT components of a calendar, or bytes that
\* Calendar.from_ical rejects.
Calendar(events) == [calendar |-> TRUE, events |-> events]

BadDocument == [calendar |-> FALSE, events |-> <<>>]

(***************************************************************************)
(* The events table: uid TEXT PRIMARY KEY, summary TEXT, start_date DATE.  *)
(* A statement returns the rows it leaves and whether it raised.           *)
(***************************************************************************)
HasUid(rows, uid) == \E i \in 1..Len(rows) : rows[i].uid = uid

RowOf(rows, uid) == rows[CHOOSE i \in 1..Len(rows) : rows[i].uid = uid]

\* A plausible slip: the table declared without its primary key.
InsertPlain(rows, row) == [rows |-> Append(rows, row), error |-> FALSE]

\* A plausible slip: INSERT OR REPLACE, the newest record wins.
InsertOrReplace(rows, row) ==
    [rows |-> Append(SelectSeq(rows, LAMBDA r : r.uid # row.uid), row), error |-> FALSE]

\* INSERT OR IGNORE INTO events VALUES (?, ?, ?), then commit
InsertOrIgnore(rows, row) ==
    [rows |-> IF HasUid(rows, row.uid) THEN rows ELSE Append(rows, row), error |-> FALSE]

\* the values update_schedule reads from one component
EventRow(ev) ==
    [uid |-> ev["uid"],
     summary |-> ev["summary"],
     start_date |-> IsoFormat(ev["dtstart"].date)]

\* SELECT ... WHERE start_date = ?
QueryByDate(rows, iso) == SelectSeq(rows, LAMBDA r : r.start_date = iso)

\* SELECT ... WHERE start_date BETWEEN ? AND ?
QueryByDateRange(rows, lo, hi) ==
    SelectSeq(rows, LAMBDA r : TextLeq(lo, r.start_date) /\ TextLeq(r.start_date, hi))

(***************************************************************************)
(* What an operation leaves behind for the observer.                       *)
(***************************************************************************)
Idle ==
    [op       |-> "none",   \* the operation
     outcome  |-> "ok",     \* how it ended
     injected |-> {},       \* feed positions whose INSERT the storage failed
     warned   |-> {},       \* feed positions for which a warning was logged
     queried  |-> <<>>,     \* the rows its SELECT fetched
     weekEnd  |-> <<>>,     \* the Sunday it computed, if any
     schedule |-> <<>>,     \* weekly_schedule when its loop ended
     season   |-> <<>>,     \* the variable season when the loop ended, if bound
     reminders |-> <<>>,    \* the messages bot.send_message was called with
     sent     |-> <<>>,     \* the sends awaited: the message and whether it went out
     opened   |-> 0,        \* connections the call opened
     closed   |-> 0,        \* connections the call closed
     closeUnbound |-> FALSE,\* conn.close() reached with conn unbound
     raised   |-> FALSE]    \* an exception left the function

(***************************************************************************)
(* update_schedule                                                         *)
(***************************************************************************)
\* A component that carries uid, dtstart and summary.
Complete(ev) == Keys \subseteq DOMAIN ev

\* A plausible slip: a failed INSERT ends the loop.
RECURSIVE WalkEventsStopOnError(_, _, _, _, _)
WalkEventsStopOnError(rows, cal, i, faulty, warned) ==
    IF i > Len(cal)
    THEN [rows |-> rows, warned |-> warned, outcome |-> "ok"]
    ELSE IF ~Complete(cal[i])
    THEN [rows |-> rows, warned |-> warned, outcome |-> "key_error"]
    ELSE IF i \in faulty
    THEN [rows |-> rows, warned |-> warned \cup {i}, outcome |-> "ok"]
    ELSE LET res == InsertOrIgnore(rows, EventRow(cal[i])) IN
         WalkEventsStopOnError(res.rows, cal, i + 1, faulty,
                               IF res.error THEN warned \cup {i} ELSE warned)

\* The loop over cal.walk("vevent"), from component i on.  faulty are the
\* positions whose INSERT the storage fails with sqlite3.Error; warned collects
\* the positions for which the warning was logged.  A KeyError is not caught
\* inside the loop: it ends the walk.
RECURSIVE WalkEvents(_, _, _, _, _)
WalkEvents(rows, cal, i, faulty, warned) ==
    IF i > Len(cal)
    THEN [rows |-> rows, warned |-> warned, outcome |-> "ok"]
    ELSE IF ~Complete(cal[i])
    THEN [rows |-> rows, warned |-> warned, outcome |-> "key_error"]
    ELSE IF i \in faulty
    THEN WalkEvents(rows, cal, i + 1, faulty, warned \cup {i})
    ELSE LET res == InsertOrIgnore(rows, EventRow(cal[i])) IN
         WalkEvents(res.rows, cal, i + 1, faulty,
                    IF res.error THEN warned \cup {i} ELSE warned)

\* A plausible slip: the table is emptied and reloaded (DELETE FROM events
\* after connecting), so a document that does not parse leaves it empty.
RunUpdateReload(rows, doc, env, faulty) ==
    IF env = "fetch_failed"
    THEN [rows |-> rows, warned |-> {}, outcome |-> "fetch_failed"]
    ELSE IF env = "io_error"
    THEN [rows |-> rows, warned |-> {}, outcome |-> "io_error"]
    ELSE IF ~doc.calendar
    THEN [rows |-> <<>>, warned |-> {}, outcome |-> "parse_error"]
    ELSE WalkEvents(<<>>, doc.events, 1, faulty, {})

\* The whole of update_schedule on document doc.  env is what the environment
\* does to this run: "ok", "fetch_failed" (requests raises) or "io_error" (the
\* cache file or the database cannot be opened).
RunUpdate(rows, doc, env, faulty) ==
    IF env = "fetch_failed"
    THEN [rows |-> rows, warned |-> {}, outcome |-> "fetch_failed"]
    ELSE IF env = "io_error"
    THEN [rows |-> rows, warned |-> {}, outcome |-> "io_error"]
    ELSE IF ~doc.calendar
    THEN [rows |-> rows, warned |-> {}, outcome |-> "parse_error"]
    ELSE WalkEvents(rows, doc.events, 1, faulty, {})

\* without the table every INSERT raises "no such table"
FaultSets(doc) ==
    IF tableExists THEN SUBSET (1..Len(doc.events)) ELSE {1..Len(doc.events)}

\* the run walked the calendar
Walked(outcome) == outcome \in {"ok", "key_error"}

\* the run met no fault of the network or of the storage
Faultless(l) ==
    /\ l.op = "update_schedule"
    /\ l.outcome \in {"ok", "key_error", "parse_error"}
    /\ l.injected = {}

\* line 55 is reached unless the fetch or the files failed; line 74 is
\* reached when nothing was raised outside the inner try
Connected(outcome) == IF outcome \in {"fetch_failed", "io_error"} THEN 0 ELSE 1

Disconnected(outcome) == IF outcome = "ok" THEN 1 ELSE 0

update_schedule ==
    \E env \in {"ok", "fetch_failed", "io_error"} :
      \E faulty \in FaultSets(feed) :
        LET run == RunUpdate(store, feed, env, faulty) IN
        /\ store' = run.rows
        /\ last' = [Idle EXCEPT !.op = "update_schedule",
                                !.outcome = run.outcome,
                                !.injected = IF Walked(run.outcome) THEN faulty ELSE {},
                                !.warned = run.warned,
                                !.opened = Connected(run.outcome),
                                !.closed = Disconnected(run.outcome)]
        /\ resync' = Faultless(last)
        /\ UNCHANGED <<tableExists, feed, today>>
        /\ UNCHANGED conc

(***************************************************************************)
(* init_db                                                                 *)
(***************************************************************************)
\* A plausible slip: the table is dropped and created again.
RecreateTable(rows) == <<>>

\* CREATE TABLE IF NOT EXISTS events
CreateTableIfNotExists(rows) == rows

init_db ==
    \E ok \in BOOLEAN :
        /\ tableExists' = (tableExists \/ ok)
        /\ store' = (IF ok THEN CreateTableIfNotExists(store) ELSE store)
        /\ last' = [Idle EXCEPT !.op = "init_db",
                                !.outcome = IF ok THEN "ok" ELSE "db_error"]
        /\ resync' = FALSE
        /\ UNCHANGED <<feed, today>>
        /\ UNCHANGED conc

(***************************************************************************)
(* send_notifications and send_weekly_schedule.  A message is the literal  *)
(* text of the code (without its emoji) and the values put into it.        *)
(***************************************************************************)
Tomorrow(dt) == AddDays(dt, 1)

\* A plausible slip: isoweekday() arithmetic on weekday() numbers.
NextSundayOffByOne(dt) == AddDays(dt, (7 - Weekday(dt)) % 7)

\* today + timedelta(days=(6 - today.weekday()) % 7)
NextSunday(dt) == AddDays(dt, (6 - Weekday(dt)) % 7)

Message(text, body) == [text |-> text, body |-> body]

\* lines 100-106
ReminderText(summary) ==
    LET show_parts == Split(summary, <<":", " ">>)
    IN  IF Len(show_parts) = 2
        THEN Message("Reminder: {show_name}\n Episode: {episode} airs tomorrow!",
                     <<show_parts[1], show_parts[2]>>)
        ELSE Message("Reminder: {summary} airs tomorrow!", <<summary>>)

\* lines 99-115.  bot.send_message is a coroutine function (the handlers
\* await it, lines 150, 186, 204); the call of line 109 makes a coroutine
\* that nothing awaits, so no request leaves for Telegram and nothing is
\* raised.
Reminders(upcoming_events) ==
    [i \in 1..Len(upcoming_events) |-> ReminderText(upcoming_events[i].summary)]

\* db: how the database answers the call
DbAnswers == {"ok", "connect_error", "query_error"}

\* send_notifications when the database answers db; upcoming_events are
\* the rows of lines 88-95
Notify(upcoming_events, db) ==
        /\ last' = IF db = "connect_error"
                   THEN \* line 84 raises, line 119
                        [Idle EXCEPT !.op = "send_notifications",
                                     !.outcome = "db_error"]
                   ELSE IF db = "query_error" \/ ~tableExists
                   THEN \* line 89 raises, line 119; line 117 is not reached
                        [Idle EXCEPT !.op = "send_notifications",
                                     !.outcome = "db_error",
                                     !.opened = 1]
                   ELSE [Idle EXCEPT !.op = "send_notifications",
                                     !.queried = upcoming_events,
                                     !.reminders = Reminders(upcoming_events),
                                     !.opened = 1,
                                     !.closed = 1]
        /\ resync' = FALSE
        /\ UNCHANGED <<tableExists, store, feed, today>>
        /\ UNCHANGED conc

\* send_notifications, the database answering in one of the ways of dbs
NotifyWith(dbs) ==
    \E upcoming_events \in {QueryByDate(store, IsoFormat(Tomorrow(today)))} :
        \E db \in dbs : Notify(upcoming_events, db)

send_notifications == NotifyWith(DbAnswers)

\* lines 175-179: weekly_schedule[start_date][title].append(episode); the
\* dicts keep the order in which their keys were first set
AddEpisode(sched, day, title, episode) ==
    LET withDay == IF \E i \in 1..Len(sched) : sched[i].day = day
                   THEN sched
                   ELSE Append(sched, [day |-> day, shows |-> <<>>])
        d == CHOOSE i \in 1..Len(withDay) : withDay[i].day = day
        shows == withDay[d].shows
        withTitle == IF \E i \in 1..Len(shows) : shows[i].title = title
                     THEN shows
                     ELSE Append(shows, [title |-> title, episodes |-> <<>>])
        t == CHOOSE i \in 1..Len(withTitle) : withTitle[i].title = title
    IN  [withDay EXCEPT ![d].shows = [withTitle EXCEPT ![t].episodes = Append(@, episode)]]

\* lines 160-183, one pass of the loop.  acc.season is the variable season:
\* empty while unbound, else the value line 171 gave it last.
GroupEvent(acc, row, day0) ==
    LET start_date == FromIsoFormat(row.start_date)
        parts == Split(row.summary, <<":", " ">>)
        season_episode == Split(parts[2], <<"x">>)
    IN  IF DateLess(start_date, day0) THEN acc          \* lines 162-163
        ELSE IF Len(parts) # 2 THEN acc                 \* line 166 raises ValueError, lines 181-183
        ELSE IF Len(season_episode) # 2 THEN acc        \* lines 168-169
        ELSE [schedule |-> AddEpisode(acc.schedule, start_date, parts[1], season_episode[2]),
              season |-> <<season_episode[1]>>]

\* lines 158-183
RECURSIVE GroupEvents(_, _, _)
GroupEvents(acc, events, day0) ==
    IF events = <<>> THEN acc
    ELSE GroupEvents(GroupEvent(acc, Head(events), day0), Tail(events), day0)

\* A plausible slip: the days in the order of the dict.
UnsortedDays(sched) == sched

\* sorted(weekly_schedule.keys())
RECURSIVE SortedDays(_)
SortedDays(sched) ==
    IF sched = <<>> THEN <<>>
    ELSE LET m == CHOOSE i \in 1..Len(sched) :
                      \A j \in 1..Len(sched) : DateLeq(sched[i].day, sched[j].day)
         IN  <<sched[m]>> \o SortedDays(SubSeq(sched, 1, m - 1) \o SubSeq(sched, m + 1, Len(sched)))

\* day.strftime("%A, %B %d"): the name of the weekday, the name of the
\* month, the day of the month in two digits; the year is not shown
Heading(day) ==
    [kind |-> "heading", weekday |-> Weekday(day), month |-> day.month,
     mday |-> ZeroPad(DecStr(day.day), 2)]

\* lines 198-201: a line for each show, a bullet for each of its episodes
RECURSIVE ShowLines(_, _)
ShowLines(shows, season) ==
    IF shows = <<>> THEN <<>>
    ELSE <<[kind |-> "show", title |-> shows[1].title, season |-> season]>>
         \o [i \in 1..Len(shows[1].episodes) |->
                [kind |-> "bullet", label |-> LStrip(shows[1].episodes[i], "0")]]
         \o ShowLines(Tail(shows), season)

\* lines 195-202
RECURSIVE DayLines(_, _)
DayLines(days, season) ==
    IF days = <<>> THEN <<>>
    ELSE <<Heading(days[1].day)>> \o ShowLines(days[1].shows, season)
         \o <<[kind |-> "blank"]>> \o DayLines(Tail(days), season)

NoShows == Message("No upcoming shows scheduled for this week.", <<>>)

\* A plausible slip: the check of lines 185-191 left out.
WeeklyReplyUnchecked(events, grouped) ==
    IF events = <<>> THEN NoShows
    ELSE Message("This week's TV schedule (from today to Sunday):\n\n",
                 DayLines(SortedDays(grouped.schedule),
                          IF grouped.season = <<>> THEN <<>> ELSE grouped.season[1]))

\* lines 149-155, 185-202: the message the handler is about to send
WeeklyReply(events, grouped) ==
    IF events = <<>> THEN NoShows
    ELSE IF grouped.schedule = <<>> THEN NoShows
    ELSE Message("This week's TV schedule (from today to Sunday):\n\n",
                 DayLines(SortedDays(grouped.schedule), grouped.season[1]))

DbErrorReply == Message("Error fetching weekly schedule. Please try again later.", <<>>)

ErrorReply == Message("Error processing your request. Please try again later.", <<>>)

\* the sends of one call: the n-th send of the call fails when n is in
\* sendFails
Send(message, n, sendFails) == [message |-> message, ok |-> n \notin sendFails]

\* lines 131-202: the rows fetched, the loop over them, the message made
WeeklyAnswer(rows, day0) ==
    LET sunday == NextSunday(day0)
        events == QueryByDateRange(rows, IsoFormat(day0), IsoFormat(sunday))
        grouped == GroupEvents([schedule |-> <<>>, season |-> <<>>], events, day0)
    IN  [sunday |-> sunday, events |-> events, grouped |-> grouped,
         reply |-> WeeklyReply(events, grouped)]

\* send_weekly_schedule when the database answers db and the sends of
\* sendFails fail; answer is what lines 131-202 make of the table
AnswerWeekly(answer, db, sendFails) ==
        /\ last' = IF db = "connect_error"
                   THEN \* line 127 raises, lines 210-215; line 224 finds conn
                        \* unbound and raises UnboundLocalError
                        [Idle EXCEPT !.op = "send_weekly_schedule",
                                     !.outcome = "db_error",
                                     !.sent = <<Send(DbErrorReply, 1, sendFails)>>,
                                     !.closeUnbound = TRUE,
                                     !.raised = TRUE]
                   ELSE IF db = "query_error" \/ ~tableExists
                   THEN \* line 139 raises, lines 210-215, line 224
                        [Idle EXCEPT !.op = "send_weekly_schedule",
                                     !.outcome = "db_error",
                                     !.sent = <<Send(DbErrorReply, 1, sendFails)>>,
                                     !.opened = 1,
                                     !.closed = 1,
                                     !.raised = (1 \in sendFails)]
                   ELSE [Idle EXCEPT !.op = "send_weekly_schedule",
                                     !.queried = answer.events,
                                     !.weekEnd = <<answer.sunday>>,
                                     !.schedule = answer.grouped.schedule,
                                     !.season = answer.grouped.season,
                                     \* a send that fails raises, lines 216-222
                                     !.sent = IF 1 \in sendFails
                                              THEN <<Send(answer.reply, 1, sendFails),
                                                     Send(ErrorReply, 2, sendFails)>>
                                              ELSE <<Send(answer.reply, 1, sendFails)>>,
                                     !.opened = 1,
                                     !.closed = 1,
                                     !.raised = ({1, 2} \subseteq sendFails)]
        /\ resync' = FALSE
        /\ UNCHANGED <<tableExists, store, feed, today>>
        /\ UNCHANGED conc

\* a call sends twice at most: its message, and a message about the failure
SendFaults == {{}, {1}, {1, 2}}

\* send_weekly_schedule, the database answering in one of the ways of dbs
\* and the sends failing in one of the ways of faults
WeeklyWith(dbs, faults) ==
    \E answer \in {WeeklyAnswer(store, today)} :
        \E db \in dbs : \E sendFails \in faults : AnswerWeekly(answer, db, sendFails)

send_weekly_schedule == WeeklyWith(DbAnswers, SendFaults)

(***************************************************************************)
(* The feed's publisher.                                                   *)
(***************************************************************************)
FeedPublishes ==
    \E c \in Components :
        /\ feed.calendar
        /\ Len(feed.events) < MaxFeedLen
        /\ feed' = Calendar(Append(feed.events, c))
        /\ last' = [Idle EXCEPT !.op = "feed"]
        /\ resync' = FALSE
        /\ UNCHANGED <<tableExists, store, today>>
        /\ UNCHANGED <<ctl, conc>>

FeedRetires ==
    /\ feed.calendar
    /\ feed.events # <<>>
    /\ feed' = Calendar(Tail(feed.events))
    /\ last' = [Idle EXCEPT !.op = "feed"]
    /\ resync' = FALSE
    /\ UNCHANGED <<tableExists, store, today>>
    /\ UNCHANGED <<ctl, conc>>

FeedBreaks ==
    /\ feed' = (IF feed.calendar THEN BadDocument ELSE Calendar(<<>>))
    /\ last' = [Idle EXCEPT !.op = "feed"]
    /\ resync' = FALSE
    /\ UNCHANGED <<tableExists, store, today>>
    /\ UNCHANGED <<ctl, conc>>

(***************************************************************************)
(* update_schedule runs that share DB_FILE: each has its own connection    *)
(* (line 55) and walks its own document.                                   *)
(***************************************************************************)
Runs == {1, 2}

NotRunning == [at |-> "idle", doc |-> <<>>, idx |-> 0, journal |-> <<>>, raised |-> FALSE]

NoRuns == [r \in Runs |-> NotRunning]

(***************************************************************************)
(* The jobs run one after another in any order, on any feed.               *)
(***************************************************************************)
Init ==
    /\ tableExists = FALSE
    /\ store = <<>>
    /\ feed = Calendar(<<>>)
    /\ today = Date(2024, 5, 9)
    /\ last = Idle
    /\ resync = FALSE
    /\ pc = "jobs"
    /\ clock = 0
    /\ nextRefresh = 0
    /\ nextNotify = 0
    /\ runs = NoRuns
    /\ lock = 0

JobInitDb == init_db /\ UNCHANGED ctl

JobUpdateSchedule == update_schedule /\ UNCHANGED ctl

JobSendNotifications == send_notifications /\ UNCHANGED ctl

JobSendWeeklySchedule == send_weekly_schedule /\ UNCHANGED ctl

Next ==
    \/ JobInitDb
    \/ JobUpdateSchedule
    \/ JobSendNotifications
    \/ JobSendWeeklySchedule
    \/ FeedPublishes
    \/ FeedRetires
    \/ FeedBreaks

Spec == Init /\ [][Next]_vars

(***************************************************************************)
(* main: init_db, update_schedule, the two scheduled jobs registered, then *)
(* application.run_polling(), which returns only when the application is   *)
(* stopped, and after it the loop over run_pending().                      *)
(***************************************************************************)
RefreshDays == 30    \* every(30).days
NotifyHour == 8      \* .at("08:00")

StartDay == Date(2024, 5, 9)

\* the first 08:00 after hour t
NextNotifyAfter(t) ==
    LET sameDay == (t \div 24) * 24 + NotifyHour IN
    IF t < sameDay THEN sameDay ELSE sameDay + 24

\* the calendar served while main runs
MainFeed ==
    Calendar(<<[uid |-> "u1", dtstart |-> DtA, summary |-> SumA],
               [uid |-> "u2", dtstart |-> DtB, summary |-> SumB]>>)

MainInit ==
    /\ tableExists = FALSE
    /\ store = <<>>
    /\ feed = MainFeed
    /\ clock \in {7, 9}
    /\ today = StartDay
    /\ last = Idle
    /\ resync = FALSE
    /\ pc = "init_db"
    /\ nextRefresh = 0
    /\ nextNotify = 0
    /\ runs = NoRuns
    /\ lock = 0

\* A plausible slip: init_db lets its exception out and main ends.
MainInitDbStops ==
    /\ pc = "init_db"
    /\ init_db
    /\ pc' = (IF last'.outcome = "ok" THEN "update_schedule" ELSE "stopped")
    /\ UNCHANGED <<clock, nextRefresh, nextNotify>>

\* line 247
MainInitDb ==
    /\ pc = "init_db"
    /\ init_db
    /\ pc' = "update_schedule"
    /\ UNCHANGED <<clock, nextRefresh, nextNotify>>

\* line 248
MainUpdateSchedule ==
    /\ pc = "update_schedule"
    /\ update_schedule
    /\ pc' = "register"
    /\ UNCHANGED <<clock, nextRefresh, nextNotify>>

\* lines 251-258: the application is built and the two jobs are registered
MainRegister ==
    /\ pc = "register"
    /\ nextRefresh' = clock + RefreshDays * 24
    /\ nextNotify' = NextNotifyAfter(clock)
    /\ pc' = "polling"
    /\ UNCHANGED <<clock>>
    /\ UNCHANGED <<data, conc>>

\* line 261, a /weekly command arrives while run_polling runs
PollWeekly ==
    /\ pc = "polling"
    /\ send_weekly_schedule
    /\ UNCHANGED ctl

\* line 261, a /start command arrives while run_polling runs
PollStart ==
    /\ pc = "polling"
    /\ last' = [Idle EXCEPT !.op = "start_command"]
    /\ resync' = FALSE
    /\ UNCHANGED <<tableExists, store, feed, today>>
    /\ UNCHANGED <<ctl, conc>>

\* line 261, run_polling returns: the application was stopped by a signal
PollStops ==
    /\ pc = "polling"
    /\ pc' = "run_pending"
    /\ UNCHANGED <<clock, nextRefresh, nextNotify>>
    /\ UNCHANGED <<data, conc>>

\* lines 264-266, run_pending runs the due jobs in the order of their next_run
PendingRefresh ==
    /\ pc = "run_pending"
    /\ clock >= nextRefresh
    /\ ~(clock >= nextNotify /\ nextNotify < nextRefresh)
    /\ update_schedule
    /\ nextRefresh' = clock + RefreshDays * 24
    /\ UNCHANGED <<pc, clock, nextNotify>>

PendingNotify ==
    /\ pc = "run_pending"
    /\ clock >= nextNotify
    /\ ~(clock >= nextRefresh /\ nextRefresh <= nextNotify)
    /\ send_notifications
    /\ nextNotify' = NextNotifyAfter(clock)
    /\ UNCHANGED <<pc, clock, nextRefresh>>

\* lines 268-269, KeyboardInterrupt in the loop
Interrupted ==
    /\ pc = "run_pending"
    /\ pc' = "stopped"
    /\ UNCHANGED <<clock, nextRefresh, nextNotify>>
    /\ UNCHANGED <<data, conc>>

\* An hour passes.  The loop looks at the jobs every second, so in it a due
\* job runs before the hour is over; run_polling looks at no job.
HourPasses ==
    /\ pc \in {"polling", "run_pending"}
    /\ pc = "run_pending" => (clock < nextRefresh /\ clock < nextNotify)
    /\ clock + 1 < MaxDays * 24
    /\ clock' = clock + 1
    /\ today' = AddDays(StartDay, clock' \div 24)
    /\ UNCHANGED <<tableExists, store, feed, last, resync, pc, nextRefresh, nextNotify>>
    /\ UNCHANGED conc

MainNext ==
    \/ MainInitDb
    \/ MainUpdateSchedule
    \/ MainRegister
    \/ PollWeekly
    \/ PollStart
    \/ PollStops
    \/ PendingRefresh
    \/ PendingNotify
    \/ Interrupted
    \/ HourPasses

SpecMain == MainInit /\ [][MainNext]_vars

(***************************************************************************)
(* The queries on any table and any day.  The days span three windows: one *)
(* over the leap day, one from September into October, one over the turn   *)
(* of the year.                                                            *)
(***************************************************************************)
Window(first) == { AddDays(first, k) : k \in 0..(WindowDays - 1) }

Days == Window(Date(2024, 2, 24)) \cup Window(Date(2024, 9, 28)) \cup Window(Date(2024, 12, 26))

\* the row update_schedule stores for an event of that day
RowAt(uid, summary, day) ==
    EventRow([uid |-> uid, dtstart |-> [date |-> day, hour |-> 20], summary |-> summary])

WeekStores ==
    {<<>>}
        \cup { <<RowAt("u1", SumA, d)>> : d \in Days }
        \cup { <<RowAt("u1", SumA, d[1]), RowAt("u2", SumB, d[2])>> : d \in Days \X Days }

WeekInit ==
    /\ tableExists = TRUE
    /\ store \in WeekStores
    /\ feed = Calendar(<<>>)
    /\ today \in Days
    /\ last = Idle
    /\ resync = FALSE
    /\ pc = "jobs"
    /\ clock = 0
    /\ nextRefresh = 0
    /\ nextNotify = 0
    /\ runs = NoRuns
    /\ lock = 0

\* here the table may be out of reach, the network works
WeekWeekly == WeeklyWith({"ok", "query_error"}, {{}}) /\ UNCHANGED ctl

WeekNotifications == NotifyWith({"ok", "query_error"}) /\ UNCHANGED ctl

WeekNext ==
    \/ WeekWeekly
    \/ WeekNotifications

SpecWeek == WeekInit /\ [][WeekNext]_vars

(***************************************************************************)
(* The two views on tables whose summaries are of every shape: well        *)
(* formed, with zeros for the episode, without ": ", with ": " twice, with  *)
(* "x" twice.  Today is a Thursday; the days of the rows are the Friday    *)
(* and the Saturday of its week and the Monday after.                      *)
(***************************************************************************)
MaxViewLen == 2      \* rows in the table the views read

SumZero == <<"A", ":", " ", "3", "x", "0", "0">>
SumPlain == <<"M">>
SumNested == <<"A", ":", " ", "B", ":", " ", "1", "x", "2">>
SumThree == <<"A", ":", " ", "1", "x", "2", "x", "3">>

ViewSummaries == {SumA, SumB, SumZero, SumPlain, SumNested, SumThree}

ViewDays == {Date(2024, 5, 10), Date(2024, 5, 11), Date(2024, 5, 13)}

ViewUid == <<"u1", "u2", "u3", "u4">>

ViewRows(n) == [1..n -> ViewSummaries \X ViewDays]

ViewStores ==
    UNION { { [i \in 1..n |-> RowAt(ViewUid[i], r[i][1], r[i][2])] : r \in ViewRows(n) } :
                n \in 0..MaxViewLen }

ViewInit ==
    /\ tableExists = TRUE
    /\ store \in ViewStores
    /\ feed = Calendar(<<>>)
    /\ today = Date(2024, 5, 9)
    /\ last = Idle
    /\ resync = FALSE
    /\ pc = "jobs"
    /\ clock = 0
    /\ nextRefresh = 0
    /\ nextNotify = 0
    /\ runs = NoRuns
    /\ lock = 0

ViewWeekly == send_weekly_schedule /\ UNCHANGED ctl

ViewNotifications == send_notifications /\ UNCHANGED ctl

ViewNext ==
    \/ ViewWeekly
    \/ ViewNotifications

SpecView == ViewInit /\ [][ViewNext]_vars

(***************************************************************************)
(* Concurrent runs.  cursor.execute starts a write transaction, which      *)
(* takes the write lock of the database file, and leaves its change in the *)
(* transaction's journal; conn.commit makes the change visible and gives   *)
(* the lock back.  A document here holds complete components only.         *)
(***************************************************************************)
ConcDocs == UNION { [1..n -> FullEvents] : n \in 0..MaxConcLen }

\* lines 47-59: the document is fetched and parsed, the connection opened
ConcBegin(r) ==
    /\ runs[r].at = "idle"
    /\ \E doc \in ConcDocs :
           runs' = [runs EXCEPT ![r] = [at |-> "walk", doc |-> doc, idx |-> 1,
                                        journal |-> <<>>, raised |-> FALSE]]
    /\ UNCHANGED <<data, ctl, lock>>

\* lines 61-69: INSERT OR IGNORE runs against the committed rows
ConcExecute(r) ==
    /\ runs[r].at = "walk"
    /\ runs[r].idx <= Len(runs[r].doc)
    /\ lock = 0
    /\ LET res == InsertOrIgnore(store, EventRow(runs[r].doc[runs[r].idx])) IN
       runs' = [runs EXCEPT ![r].at = "commit",
                            ![r].journal = SubSeq(res.rows, Len(store) + 1, Len(res.rows)),
                            ![r].raised = runs[r].raised \/ res.error]
    /\ lock' = r
    /\ UNCHANGED <<data, ctl>>

\* line 70: conn.commit()
ConcCommit(r) ==
    /\ runs[r].at = "commit"
    /\ store' = store \o runs[r].journal
    /\ runs' = [runs EXCEPT ![r].at = "walk", ![r].journal = <<>>,
                            ![r].idx = runs[r].idx + 1]
    /\ lock' = 0
    /\ UNCHANGED <<tableExists, feed, today, last, resync, ctl>>

\* lines 71-72: the INSERT raises sqlite3.Error (the database is locked, the
\* disk fails); the record is skipped
ConcInsertFails(r) ==
    /\ runs[r].at = "walk"
    /\ runs[r].idx <= Len(runs[r].doc)
    /\ runs' = [runs EXCEPT ![r].idx = runs[r].idx + 1]
    /\ UNCHANGED <<data, ctl, lock>>

\* lines 74-75: the walk is over, the connection is closed
ConcEnd(r) ==
    /\ runs[r].at = "walk"
    /\ runs[r].idx > Len(runs[r].doc)
    /\ runs' = [runs EXCEPT ![r] = NotRunning]
    /\ UNCHANGED <<data, ctl, lock>>

\* the queries read the committed rows
ConcWeekly == WeeklyWith({"ok", "query_error"}, {{}}) /\ UNCHANGED ctl

ConcNotifications == NotifyWith({"ok", "query_error"}) /\ UNCHANGED ctl

ConcInit ==
    /\ tableExists = TRUE
    /\ store = <<>>
    /\ feed = Calendar(<<>>)
    /\ today = Date(2024, 5, 9)
    /\ last = Idle
    /\ resync = FALSE
    /\ pc = "jobs"
    /\ clock = 0
    /\ nextRefresh = 0
    /\ nextNotify = 0
    /\ runs = NoRuns
    /\ lock = 0

ConcNext ==
    \/ \E r \in Runs : ConcBegin(r)
    \/ \E r \in Runs : ConcExecute(r)
    \/ \E r \in Runs : ConcCommit(r)
    \/ \E r \in Runs : ConcInsertFails(r)
    \/ \E r \in Runs : ConcEnd(r)
    \/ ConcWeekly
    \/ ConcNotifications

SpecConc == ConcInit /\ [][ConcNext]_vars

(***************************************************************************)
(* Properties of ingestion.                                                *)
(***************************************************************************)
IsPrefix(a, b) == Len(a) <= Len(b) /\ \A i \in 1..Len(a) : b[i] = a[i]

UidsOf(rows) == { rows[i].uid : i \in 1..Len(rows) }

\* the records of cal the loop reaches: those before the first component
\* that lacks a property
Reached(cal) ==
    { i \in 1..Len(cal) : \A j \in 1..i : Complete(cal[j]) }

\* C1: update_schedule run again, right after a run on the same document
\* that met no fetch or storage fault, inserts no row: the table after the
\* second run is the table after the first.
C1_IdempotentIngestion == [][resync' => store' = store]_vars

\* C1 witness: the second of two runs on a document with events has ended and
\* the table holds rows.
C1_Witness ==
    /\ resync
    /\ last.outcome = "ok"
    /\ last.injected = {}
    /\ feed.events # <<>>
    /\ Len(store) = 2

\* the first component of the document with this uid whose INSERT the storage
\* did not fail
FirstAccepted(cal, uid, injected) ==
    CHOOSE k \in 1..Len(cal) :
        /\ Complete(cal[k]) /\ cal[k]["uid"] = uid /\ k \notin injected
        /\ \A j \in 1..(k - 1) :
               ~(Complete(cal[j]) /\ cal[j]["uid"] = uid /\ j \notin injected)

\* C2: first write wins.  A uid has at most one row; the row of a uid already
\* stored never changes; a row that appears holds the summary and start date
\* of the first record of the document with that uid that was inserted; and a
\* duplicate uid logs no error (warnings come from storage faults only).
C2_FirstWriteWins ==
    [][ /\ \A u \in UidsOf(store) : HasUid(store', u) /\ RowOf(store', u) = RowOf(store, u)
        /\ \A i, j \in 1..Len(store') : store'[i].uid = store'[j].uid => i = j
        /\ \A u \in UidsOf(store') \ UidsOf(store) :
               /\ last'.op = "update_schedule"
               /\ RowOf(store', u) =
                      EventRow(feed.events[FirstAccepted(feed.events, u, last'.injected)])
        /\ last'.warned \subseteq last'.injected
      ]_vars

\* C2 witness: a document carried the same uid twice with different summary
\* and date, and the table holds the first.
C2_Witness ==
    /\ last.op = "update_schedule"
    /\ last.outcome = "ok"
    /\ last.injected = {}
    /\ Len(feed.events) = 2
    /\ feed.events[1]["uid"] = feed.events[2]["uid"]
    /\ feed.events[1]["summary"] # feed.events[2]["summary"]
    /\ store = <<EventRow(feed.events[1])>>

\* C3: the table only grows.  Every step keeps the rows it found, in place
\* and unchanged; send_notifications and send_weekly_schedule leave the table
\* as it is.
C3_StoreOnlyGrows ==
    [][ /\ IsPrefix(store, store')
        /\ last'.op \in {"send_notifications", "send_weekly_schedule"} => store' = store
      ]_vars

\* C3 witness: init_db has run on a table that holds rows.
C3_Witness ==
    /\ last.op = "init_db"
    /\ last.outcome = "ok"
    /\ Len(store) = 2

\* C4, as claimed: after a run that fetched and parsed the document, every
\* complete component whose INSERT the storage did not fail has its uid in the
\* table, wherever a component with a missing property stands.
C4_MissingFieldSkipped ==
    (last.op = "update_schedule" /\ Walked(last.outcome)) =>
        \A i \in 1..Len(feed.events) :
            (Complete(feed.events[i]) /\ i \notin last.injected)
                => HasUid(store, feed.events[i]["uid"])

\* C5: a failed INSERT is isolated.  It is logged and skipped, it does not
\* end the run (the run ends as it does without the failure), and every other
\* record the loop reaches has its uid in the table.
C5_StorageFailureIsolated ==
    (last.op = "update_schedule" /\ Walked(last.outcome)) =>
        /\ last.outcome = (IF \A i \in 1..Len(feed.events) : Complete(feed.events[i])
                           THEN "ok" ELSE "key_error")
        /\ last.warned = last.injected \cap Reached(feed.events)
        /\ \A i \in Reached(feed.events) \ last.injected :
               HasUid(store, feed.events[i]["uid"])

\* C5 witness: the INSERT of the first record failed and the record after it
\* was inserted.
C5_Witness ==
    /\ last.op = "update_schedule"
    /\ last.outcome = "ok"
    /\ last.injected = {1}
    /\ last.warned = {1}
    /\ Len(feed.events) = 2
    /\ feed.events[1]["uid"] # feed.events[2]["uid"]
    /\ store = <<EventRow(feed.events[2])>>

\* C6: a run whose fetch fails or whose document does not parse leaves the
\* table as it was and raises nothing; and the run that follows a failed
\* fetch, on a document of complete components with no storage fault, puts
\* every uid of the document in the table.
C6_FailedAttemptLeavesStore ==
    [][ /\ (last'.op = "update_schedule" /\ last'.outcome \in {"fetch_failed", "parse_error"})
              => (store' = store /\ ~last'.raised)
        /\ ( /\ last.op = "update_schedule"
             /\ last.outcome \in {"fetch_failed", "parse_error"}
             /\ last'.op = "update_schedule"
             /\ last'.outcome = "ok"
             /\ last'.injected = {} )
              => \A i \in 1..Len(feed.events) : HasUid(store', feed.events[i]["uid"])
      ]_vars

\* C6 witness: a document that is no calendar was fetched while the table
\* held rows.
C6_Witness ==
    /\ last.op = "update_schedule"
    /\ last.outcome = "parse_error"
    /\ Len(store) = 2

(***************************************************************************)
(* Properties of main.                                                     *)
(***************************************************************************)
\* C7, as claimed: while run_polling serves commands the scheduled jobs run
\* when they fall due, so no job is ever left overdue there.
C7_JobsRunWhilePolling ==
    pc = "polling" => (clock <= nextNotify /\ clock <= nextRefresh)

(***************************************************************************)
(* Properties of concurrent runs.                                          *)
(***************************************************************************)
\* C8: under every interleaving of update_schedule runs with each other and
\* with the queries, no two rows share a uid, no INSERT of a duplicate uid
\* raises, and every row a query fetched is a whole committed row.
C8_AtomicCheckAndInsert ==
    /\ \A i, j \in 1..Len(store) : store[i].uid = store[j].uid => i = j
    /\ \A r \in Runs : ~runs[r].raised
    /\ \A k \in 1..Len(last.queried) :
           /\ DOMAIN last.queried[k] = {"uid", "summary", "start_date"}
           /\ \E i \in 1..Len(store) : store[i] = last.queried[k]

\* C8 witness: two runs are in their loops on the same uid with different
\* summaries, one of them has committed its row, the other has been through
\* its INSERT of the duplicate, and a query has fetched the row.
C8_Witness ==
    /\ runs[1].at = "walk" /\ runs[1].idx = 2
    /\ runs[2].at = "walk" /\ runs[2].idx = 2
    /\ runs[1].doc[1].uid = runs[2].doc[1].uid
    /\ runs[1].doc[1].summary # runs[2].doc[1].summary
    /\ Len(store) = 1
    /\ Len(last.queried) = 1

(***************************************************************************)
(* Properties of the weekly range.                                         *)
(***************************************************************************)
\* 7 January 2024 was a Sunday.
KnownSunday == Date(2024, 1, 7)

DaysSinceSunday(dt) == (ToOrdinal(dt) - ToOrdinal(KnownSunday)) % 7

\* the days a week that starts in Days reaches
DaysAhead == { AddDays(d, k) : d \in Days, k \in 0..7 }

TextOfDay == [d \in DaysAhead |-> IsoFormat(d)]

\* the day a start_date text stands for
DayOfText(text) == CHOOSE d \in DaysAhead : TextOfDay[d] = text

WeeklyAnswered == last.op = "send_weekly_schedule" /\ last.outcome = "ok"

\* C9: the week end send_weekly_schedule computes is the first Sunday on or
\* after today: a Sunday, not before today, at most 6 days after it, with no
\* Sunday from today up to the day before; today itself when today is a
\* Sunday, and four days after today when today is a Wednesday.
C9_WeeklyBoundary ==
    WeeklyAnswered =>
        LET sunday == last.weekEnd[1]
            ahead  == ToOrdinal(sunday) - ToOrdinal(today)
        IN  /\ DaysSinceSunday(sunday) = 0
            /\ ahead \in 0..6
            /\ \A k \in 0..(ahead - 1) : DaysSinceSunday(AddDays(today, k)) # 0
            /\ DaysSinceSunday(today) = 0 => sunday = today
            /\ DaysSinceSunday(today) = 3 => sunday = AddDays(today, 4)

\* C9 witness: the weekly command was answered on a Wednesday, for a week
\* that ends in the next month.
C9_Witness ==
    /\ WeeklyAnswered
    /\ DaysSinceSunday(today) = 3
    /\ last.weekEnd[1].month # today.month

\* C10: the weekly query fetches exactly the rows whose day lies from today
\* to the Sunday, both included; and the texts of any two stored or queried
\* days compare as TEXT the way the days compare as dates.
C10_DateRangeCorrect ==
    WeeklyAnswered =>
        LET sunday == last.weekEnd[1]
            texts  == { store[i].start_date : i \in 1..Len(store) }
                          \cup {IsoFormat(today), IsoFormat(sunday)}
        IN  /\ last.queried =
                   SelectSeq(store, LAMBDA r :
                       /\ DateLeq(today, DayOfText(r.start_date))
                       /\ DateLeq(DayOfText(r.start_date), sunday))
            /\ \A a, b \in texts : TextLess(a, b) <=> DateLess(DayOfText(a), DayOfText(b))

\* C10 witness: of two rows, one on the Sunday itself is fetched and one on
\* the Monday after it is not, in a week that runs from September into
\* October.
C10_Witness ==
    /\ WeeklyAnswered
    /\ Len(store) = 2
    /\ today.month = 9
    /\ last.weekEnd[1].month = 10
    /\ store[1].start_date = IsoFormat(last.weekEnd[1])
    /\ store[2].start_date = IsoFormat(AddDays(last.weekEnd[1], 1))
    /\ last.queried = <<store[1]>>

(***************************************************************************)
(* Properties of the weekly view.                                          *)
(***************************************************************************)
Sep == <<":", " ">>

\* the stored rows from today to the Sunday the handler computed
InRangeRows ==
    SelectSeq(store, LAMBDA r : /\ DateLeq(today, FromIsoFormat(r.start_date))
                                /\ DateLeq(FromIsoFormat(r.start_date), last.weekEnd[1]))

\* the entries of a grouped view, one for each episode it holds
RECURSIVE FlatShows(_, _)
FlatShows(day, shows) ==
    IF shows = <<>> THEN <<>>
    ELSE [i \in 1..Len(shows[1].episodes) |->
             [day |-> day, title |-> shows[1].title, episode |-> shows[1].episodes[i]]]
         \o FlatShows(day, Tail(shows))

RECURSIVE Entries(_)
Entries(sched) ==
    IF sched = <<>> THEN <<>>
    ELSE FlatShows(sched[1].day, sched[1].shows) \o Entries(Tail(sched))

\* the summary cut once at ": " gives a title and a descriptor, and the
\* descriptor cut at "x" gives a season and an episode
CutOnceQualifies(summary) ==
    /\ Len(SplitOnce(summary, Sep)) = 2
    /\ Len(Split(SplitOnce(summary, Sep)[2], <<"x">>)) = 2

CutOnceEntry(r) ==
    [day |-> FromIsoFormat(r.start_date),
     title |-> SplitOnce(r.summary, Sep)[1],
     episode |-> Split(SplitOnce(r.summary, Sep)[2], <<"x">>)[2]]

\* C11: an event in range is in the grouped view exactly when its summary,
\* cut once at ": ", gives a title and a descriptor that "x" cuts into a
\* season and an episode: each such event has its entry in the view, the
\* view holds no other entry, whatever the other events in range are.
C11_WeeklyInclusion ==
    WeeklyAnswered =>
        LET claimed == SelectSeq(InRangeRows, LAMBDA r : CutOnceQualifies(r.summary))
            entries == Entries(last.schedule)
        IN  /\ Len(entries) = Len(claimed)
            /\ \A i \in 1..Len(claimed) :
                   \E k \in 1..Len(entries) : entries[k] = CutOnceEntry(claimed[i])

(***************************************************************************)
(* Properties of the reminders.                                            *)
(***************************************************************************)
\* the stored rows whose day is the day after today
DueTomorrow == SelectSeq(store, LAMBDA r : FromIsoFormat(r.start_date) = AddDays(today, 1))

Notified == last.op = "send_notifications" /\ last.outcome = "ok"

\* C12: a run of send_notifications sends one reminder for each stored
\* event of tomorrow and none for any other event; the reminder of a summary
\* that ": " does not cut into two parts carries the summary as it is.
C12_TomorrowReminders ==
    Notified =>
        /\ Len(last.sent) = Len(DueTomorrow)
        /\ \A i \in 1..Len(last.sent) :
               LET summary == DueTomorrow[i].summary IN
               /\ last.sent[i].message = ReminderText(summary)
               /\ Len(Split(summary, Sep)) # 2 => last.sent[i].message.body = <<summary>>

(***************************************************************************)
(* Properties of the weekly rendering.                                     *)
(***************************************************************************)
\* the lines of the message the handler made from the table
SentLines == IF WeeklyAnswered THEN last.sent[1].message.body ELSE <<>>

LinesOfKind(kind) == { i \in 1..Len(SentLines) : SentLines[i].kind = kind }

\* the line of kind above line i that is nearest to it
Above(i, kind) ==
    SentLines[CHOOSE h \in 1..i : /\ SentLines[h].kind = kind
                                  /\ \A k \in (h + 1)..i : SentLines[k].kind # kind]

\* row r is of the day the heading names, has the title, and its descriptor
\* holds a season and an episode
InGroup(r, heading, title) ==
    /\ Heading(FromIsoFormat(r.start_date)) = heading
    /\ Len(Split(r.summary, Sep)) = 2
    /\ Split(r.summary, Sep)[1] = title
    /\ Len(Split(Split(r.summary, Sep)[2], <<"x">>)) = 2

SeasonOf(r) == Split(Split(r.summary, Sep)[2], <<"x">>)[1]

EpisodeOf(r) == Split(Split(r.summary, Sep)[2], <<"x">>)[2]

\* C13: the season a show line displays is the season of a record of that
\* line's own title and date.
C13_SeasonOfGroup ==
    \A i \in LinesOfKind("show") :
        \E k \in 1..Len(InRangeRows) :
            /\ InGroup(InRangeRows[k], Above(i, "heading"), SentLines[i].title)
            /\ SeasonOf(InRangeRows[k]) = SentLines[i].season

\* how many times sep occurs in s
Occurrences(s, sep) ==
    Cardinality({ i \in 1..(Len(s) - Len(sep) + 1) : SubSeq(s, i, i + Len(sep) - 1) = sep })

\* the summary holds ": " once, and what follows it holds "x" once: the
\* events the loop of the handler keeps
Kept(summary) ==
    /\ Occurrences(summary, Sep) = 1
    /\ Occurrences(SubSeq(summary, Find(summary, Sep) + 2, Len(summary)), <<"x">>) = 1

KeptRows == SelectSeq(InRangeRows, LAMBDA r : Kept(r.summary))

\* C14: the handler answers "No upcoming shows scheduled for this week."
\* exactly when no stored event is kept for the view (no event at all, none
\* in range, or none in range that is kept); any other answer is a schedule
\* with a heading for a date at least, and no message but the fixed ones has
\* an empty body.
C14_EmptyWeeklyView ==
    WeeklyAnswered =>
        LET message == last.sent[1].message IN
        /\ (message = NoShows) <=> (KeptRows = <<>>)
        /\ message # NoShows => LinesOfKind("heading") # {}
        /\ \A n \in 1..Len(last.sent) :
               last.sent[n].message.body = <<>> =>
                   last.sent[n].message \in {NoShows, DbErrorReply, ErrorReply}

\* every event in range is left out, and the fixed answer goes out
C14_Witness ==
    /\ WeeklyAnswered
    /\ InRangeRows # <<>>
    /\ KeptRows = <<>>
    /\ last.sent = <<[message |-> NoShows, ok |-> TRUE]>>

\* where the line of kind above line i that is nearest to it stands
AboveAt(i, kind) ==
    CHOOSE h \in 1..i : /\ SentLines[h].kind = kind
                        /\ \A k \in (h + 1)..i : SentLines[k].kind # kind

KeptDays == { FromIsoFormat(KeptRows[k].start_date) : k \in 1..Len(KeptRows) }

\* the kept rows of a heading and a title, by their place among the rows
GroupRows(heading, title) ==
    { k \in 1..Len(KeptRows) : InGroup(KeptRows[k], heading, title) }

\* the day of the kept rows that a heading names
DayNamed(heading) == CHOOSE d \in KeptDays : Heading(d) = heading

\* the smallest of a set of numbers
Least(S) == CHOOSE k \in S : \A j \in S : k <= j

\* C15: in the schedule each date with a kept event has one heading and
\* there is no other heading, the headings are in ascending order of date;
\* under a heading each title of that date has one line, in the order in
\* which the titles were first met; every kept event has one bullet, under
\* the line of its own date and title.
C15_WeeklyGrouping ==
    (WeeklyAnswered /\ KeptRows # <<>>) =>
        LET heads == LinesOfKind("heading")
            shows == LinesOfKind("show")
            bullets == LinesOfKind("bullet")
        IN  /\ \A d \in KeptDays :
                   Cardinality({ i \in heads : SentLines[i] = Heading(d) }) = 1
            /\ \A i \in heads : \E d \in KeptDays : SentLines[i] = Heading(d)
            /\ \A i, j \in heads :
                   i < j => DateLess(DayNamed(SentLines[i]), DayNamed(SentLines[j]))
            /\ \A k \in 1..Len(KeptRows) :
                   Cardinality({ i \in shows :
                       InGroup(KeptRows[k], Above(i, "heading"), SentLines[i].title) }) = 1
            /\ \A i \in shows : GroupRows(Above(i, "heading"), SentLines[i].title) # {}
            /\ \A i, j \in shows :
                   (i < j /\ AboveAt(i, "heading") = AboveAt(j, "heading")) =>
                       Least(GroupRows(Above(i, "heading"), SentLines[i].title))
                           < Least(GroupRows(Above(j, "heading"), SentLines[j].title))
            /\ \A i \in shows :
                   Cardinality({ b \in bullets : AboveAt(b, "show") = i })
                       = Cardinality(GroupRows(Above(i, "heading"), SentLines[i].title))
            /\ Cardinality(bullets) = Len(KeptRows)

\* two titles of one date: one heading, a line and a bullet for each title,
\* the title met first above the other
C15_Witness ==
    /\ WeeklyAnswered
    /\ Len(KeptRows) = 2
    /\ Cardinality(KeptDays) = 1
    /\ Cardinality(LinesOfKind("heading")) = 1
    /\ Cardinality(LinesOfKind("show")) = 2
    /\ SentLines[2].title = <<"B">>
    /\ SentLines[4].title = <<"A">>

(***************************************************************************)
(* Properties of the handlers' failure paths.                              *)
(***************************************************************************)
\* Telegram took every message the call sent
AllSendsWentOut == \A n \in 1..Len(last.sent) : last.sent[n].ok

\* C16: a weekly command gets one reply and the handler returns without
\* raising; when the database cannot be opened or read the reply is one of
\* the two messages of apology.  (Stated for the calls whose sends all went
\* out.)
C16_WeeklyAlwaysReplies ==
    (last.op = "send_weekly_schedule" /\ AllSendsWentOut) =>
        /\ Len(last.sent) = 1
        /\ ~last.raised
        /\ last.outcome = "db_error" => last.sent[1].message \in {DbErrorReply, ErrorReply}

\* C17: every bullet of the schedule shows a label that is not empty, also
\* for an episode token made of zeros; the grouped view holds the tokens as
\* they are stored.
C17_EpisodeLabelShown ==
    WeeklyAnswered =>
        /\ \A b \in LinesOfKind("bullet") : SentLines[b].label # <<>>
        /\ \A k \in 1..Len(KeptRows) :
               \E e \in 1..Len(Entries(last.schedule)) :
                   Entries(last.schedule)[e].episode = EpisodeOf(KeptRows[k])

(***************************************************************************)
(* Properties of the start of main.                                        *)
(***************************************************************************)
Served == {"send_weekly_schedule", "start_command", "send_notifications"}

\* C18: main runs init_db, then the first update_schedule, then registers
\* and polls, whatever the two calls met; no command is handled and no job
\* is run before the first update_schedule has returned, and main stops
\* only from the loop that follows the polling.
C18_StartupOrder ==
    [][/\ pc = "init_db" => (pc' = "update_schedule" /\ last'.op = "init_db")
       /\ pc = "update_schedule" => (pc' = "register" /\ last'.op = "update_schedule")
       /\ pc = "register" => (pc' = "polling" /\ last' = last)
       /\ (last' # last /\ last'.op \in Served) => pc \in {"polling", "run_pending"}
       /\ (last' # last /\ last'.op = "update_schedule" /\ pc # "update_schedule")
              => pc = "run_pending"
       /\ pc' = "stopped" => pc = "run_pending"]_vars

\* init_db failed, the table was never made, and a command is answered
C18_Witness ==
    /\ pc = "polling"
    /\ ~tableExists
    /\ last.op = "send_weekly_schedule"
    /\ Len(last.sent) = 1

(***************************************************************************)
(* Properties of the connections.                                          *)
(***************************************************************************)
\* C19: when update_schedule, send_notifications or send_weekly_schedule
\* has returned, however it ended, it has closed every connection it
\* opened, and it has not tried to close a connection it did not open.
C19_ConnectionsReleased ==
    last.op \in {"update_schedule", "send_notifications", "send_weekly_schedule"} =>
        /\ last.closed = last.opened
        /\ ~last.closeUnbound

====
